---- MODULE Spec2Model ----
(***************************************************************************)
(* A model of maze's TorchPolicy (src/maze/core/agent/torch_policy.py):    *)
(* the network registry and its addressing, the model lifecycle            *)
(* (train / eval / to / state_dict / load_state_dict), the single sub-step *)
(* evaluation, the structured aggregation over a record and the sampling   *)
(* of an action without gradients; and of the two-agent dummy structured   *)
(* core environment (dummy_structured_core_env.py).                        *)
(*                                                                         *)
(* Python values are represented as follows.                               *)
(*   - a dict is a TLA+ function whose DOMAIN is the dict's key set;       *)
(*   - an ordered Mapping (self.networks) is a sequence of entries in      *)
(*     iteration order, each entry carrying its key;                       *)
(*   - ActorID(step_key, agent_id) is the pair <<step_key, agent_id>>; a   *)
(*     bare step key s used as a registry key is the 1-tuple <<s>>;        *)
(*   - None in the place of an ActorID is the empty tuple; an              *)
(*     Optional[dict] is <<>> for None and <<d>> for the dict d.           *)
(***************************************************************************)
EXTENDS Integers, Sequences, FiniteSets, TLC

VARIABLES networks, substeps_with_separate_agent_nets, device, record, result,
          grad_enabled, current_agent, env_step_count, env_result

\* The state of the dummy structured core environment.
env_vars == <<current_agent, env_step_count, env_result>>

vars == <<networks, substeps_with_separate_agent_nets, device, record, result,
          grad_enabled, current_agent, env_step_count, env_result>>

-----------------------------------------------------------------------------
(* Bounds of the model. *)

\* Largest number of networks a registry holds.
MaxNets == 3

\* Largest number of sub-step entries of a structured record.
MaxSubSteps == 2

-----------------------------------------------------------------------------
(* Value universes. *)

StepKeys == {0, 1}

AgentIds == {0, 1}

ActorIDs == StepKeys \X AgentIds

None == <<>>

Devices == {"cpu", "cuda"}

\* The values a network's parameters take.
ParamValues == {0, 1}

\* Every key a registry may hold: a step key alone, or a full ActorID.
AllKeys == {<<s>> : s \in StepKeys} \cup ActorIDs

\* distribution_mapper.action_space.spaces.keys()
action_space_keys == {"action_0", "action_1"}

\* The output heads of a network that emits action logits and an embedding.
DefaultHeads == action_space_keys \cup {"latent"}

Min(S) == CHOOSE x \in S : \A y \in S : x <= y

Range(f) == {f[i] : i \in DOMAIN f}

\* A dict restricted to the keys in S (dict(filter(lambda ii: ii[0] in S, d.items()))).
Restrict(d, S) == [k \in (DOMAIN d) \cap S |-> d[k]]

-----------------------------------------------------------------------------
(* The registry. *)

\* An nn.Module: its parameters, its mode, its device, and the heads it emits.
Net(key, params, dev, heads) ==
    [key |-> key, params |-> params, training |-> TRUE, device |-> dev, heads |-> heads]

\* Position of a key in the iteration order used for the registries of the model.
KeyRank(k) ==
    IF Len(k) = 1 THEN k[1]
    ELSE Cardinality(StepKeys) + k[1] * Cardinality(AgentIds) + k[2]

\* The keys of S as a sequence, by rank.
KeySeq(S) ==
    CHOOSE q \in [1..Cardinality(S) -> S] :
        \A i, j \in 1..Cardinality(S) : i < j => KeyRank(q[i]) < KeyRank(q[j])

KeySets == {S \in SUBSET AllKeys : Cardinality(S) <= MaxNets}

Keys(nets) == {nets[i].key : i \in DOMAIN nets}

\* TorchPolicy.__init__: the separate-agent-nets list becomes a set, None the empty set.
InitSeparate(arg) == IF arg = None THEN {} ELSE Range(arg)

-----------------------------------------------------------------------------
(* network_for *)

\* A faulty key selection: the separate-agent-nets set is ignored.
network_key_shared_only(actor_id, separate) == <<actor_id[1]>>

network_key(actor_id, separate) ==
    IF actor_id[1] \in separate THEN actor_id ELSE <<actor_id[1]>>

\* A faulty network_for: without an actor id it only requires a non-empty registry.
network_for_first_of_many(nets, separate, actor_id) ==
    IF actor_id = None
    THEN IF Len(nets) >= 1
         THEN [status |-> "ok", index |-> 1, key |-> nets[1].key]
         ELSE [status |-> "AssertionError", index |-> 0, key |-> None]
    ELSE LET key == network_key(actor_id, separate)
         IN IF \E i \in DOMAIN nets : nets[i].key = key
            THEN [status |-> "ok",
                  index |-> CHOOSE i \in DOMAIN nets : nets[i].key = key,
                  key |-> key]
            ELSE [status |-> "KeyError", index |-> 0, key |-> key]

\* The outcome of network_for: the index of the registry entry it returns, or what it raises.
network_for(nets, separate, actor_id) ==
    IF actor_id = None
    THEN IF Len(nets) = 1
         THEN [status |-> "ok", index |-> 1, key |-> nets[1].key]
         ELSE [status |-> "AssertionError", index |-> 0, key |-> None]
    ELSE LET key == network_key(actor_id, separate)
         IN IF \E i \in DOMAIN nets : nets[i].key = key
            THEN [status |-> "ok",
                  index |-> CHOOSE i \in DOMAIN nets : nets[i].key = key,
                  key |-> key]
            ELSE [status |-> "KeyError", index |-> 0, key |-> key]

-----------------------------------------------------------------------------
(* Lifecycle. *)

train(nets) == [i \in DOMAIN nets |-> [nets[i] EXCEPT !.training = TRUE]]

eval(nets) == [i \in DOMAIN nets |-> [nets[i] EXCEPT !.training = FALSE]]

to(nets, d) == [i \in DOMAIN nets |-> [nets[i] EXCEPT !.device = d]]

\* policy.state_dict() of one network: its parameters (not its mode).
module_state_dict(net) == net.params

\* policy.load_state_dict(sd) of one network: the parameters are overwritten.
module_load_state_dict(net, sd) == [net EXCEPT !.params = sd]

\* A faulty state_dict: the networks are saved under their step key alone.
state_dict_by_step_key(nets) ==
    LET state_dict_policies == [k \in {<<nets[i].key[1]>> : i \in DOMAIN nets} |->
            module_state_dict(nets[CHOOSE i \in DOMAIN nets : nets[i].key[1] = k[1]])]
    IN [policies |-> state_dict_policies]

state_dict(nets) ==
    LET state_dict_policies == [k \in Keys(nets) |->
            module_state_dict(nets[CHOOSE i \in DOMAIN nets : nets[i].key = k])]
    IN [policies |-> state_dict_policies]

\* A faulty load_state_dict: a registered key without a saved entry is skipped.
load_state_dict_skip_missing(nets, sd) ==
    IF "policies" \in DOMAIN sd
    THEN [status |-> "ok",
          networks |-> [i \in DOMAIN nets |->
              IF nets[i].key \in DOMAIN sd.policies
              THEN module_load_state_dict(nets[i], sd.policies[nets[i].key])
              ELSE nets[i]]]
    ELSE [status |-> "ok", networks |-> nets]

\* load_state_dict: the registry is iterated in order; the first registered key
\* without a saved entry fails the assertion, after the networks before it were loaded.
load_state_dict(nets, sd) ==
    IF "policies" \in DOMAIN sd
    THEN LET state_dict_policies == sd.policies
             missing == {i \in DOMAIN nets : nets[i].key \notin DOMAIN state_dict_policies}
             stop == IF missing = {} THEN Len(nets) + 1 ELSE Min(missing)
         IN [status |-> IF missing = {} THEN "ok" ELSE "AssertionError",
             networks |-> [i \in DOMAIN nets |->
                 IF i < stop
                 THEN module_load_state_dict(nets[i], state_dict_policies[nets[i].key])
                 ELSE nets[i]]]
    ELSE [status |-> "ok", networks |-> nets]

\* The state dicts handed to load_state_dict: the registry's keys with at most one
\* dropped and possibly one unregistered key added, or a dict without "policies"
\* (the critics' part of an actor-critic state dict).
StateDictInputs(nets) ==
    LET unregistered == AllKeys \ Keys(nets)
        extras == {{}} \cup (IF unregistered = {} THEN {}
                             ELSE {{CHOOSE k \in unregistered :
                                      \A o \in unregistered : KeyRank(k) <= KeyRank(o)}})
    IN {[policies |-> [k \in D |-> v]] :
            D \in {(Keys(nets) \ drop) \cup extra :
                     drop \in {d \in SUBSET Keys(nets) : Cardinality(d) <= 1},
                     extra \in extras},
            v \in ParamValues}
       \cup {[critics |-> [k \in Keys(nets) |-> 1]]}

-----------------------------------------------------------------------------
(* The dummy structured core environment: one step key, two agents taking turns. *)

\* Largest number of env steps the context counts.
MaxEnvSteps == 12

\* The values summarize_reward() of the reward aggregator returns.
Rewards == {0, 1}

\* get_maze_state: an observation sampled from the observation space.
get_maze_state == {0, 1}

\* agent_counts_dict: step key 0 has two agents.
DummyEnv_agent_counts_dict == (0 :> 2)

\* actor_id(): step key 0 and the current agent.
DummyEnv_actor_id(agent) == <<0, agent>>

\* is_actor_done(): actors are never done.
DummyEnv_is_actor_done == FALSE

\* A faulty step: the env step is counted on every call, agent 0's included.
DummyEnv_step_counts_every_call(agent, count, observation, reward) ==
    [current_agent |-> 1 - agent, env_step_count |-> count + 1,
     value |-> <<observation, IF agent = 0 THEN 0 ELSE reward, FALSE, <<>>>>]

\* step: agent 0 hands over to agent 1 with reward 0; agent 1 hands back to agent 0,
\* the context counts one env step and the summarized reward is returned. The value is
\* the tuple (observation, reward, done, info).
DummyEnv_step(agent, count, observation, reward) ==
    IF agent = 0
    THEN [current_agent |-> 1, env_step_count |-> count,
          value |-> <<observation, 0, FALSE, <<>>>>]
    ELSE [current_agent |-> 0, env_step_count |-> count + 1,
          value |-> <<observation, reward, FALSE, <<>>>>]

\* reset: the current agent is agent 0 again; the value is the sampled observation.
DummyEnv_reset(observation) == [current_agent |-> 0, value |-> observation]

NoEnvResult == [op |-> "none", value |-> None]

\* The environment after construction.
DummyEnv_init ==
    /\ current_agent = 0
    /\ env_step_count = 0
    /\ env_result = NoEnvResult

Env_step ==
    \E observation \in get_maze_state, reward \in Rewards :
        LET r == DummyEnv_step(current_agent, env_step_count, observation, reward)
        IN /\ r.env_step_count <= MaxEnvSteps
           /\ current_agent' = r.current_agent
           /\ env_step_count' = r.env_step_count
           /\ env_result' = [op |-> "step", value |-> r.value]
           /\ UNCHANGED <<networks, substeps_with_separate_agent_nets, device, record,
                          result, grad_enabled>>

Env_reset ==
    \E observation \in get_maze_state :
        LET r == DummyEnv_reset(observation)
        IN /\ current_agent' = r.current_agent
           /\ env_result' = [op |-> "reset", value |-> r.value]
           /\ UNCHANGED <<networks, substeps_with_separate_agent_nets, device, record,
                          result, grad_enabled, env_step_count>>

-----------------------------------------------------------------------------
(* Actions of the policy object. *)

NoResult == [op |-> "none", arg |-> None, status |-> "ok", value |-> None]

Call_train ==
    /\ networks' = train(networks)
    /\ result' = [op |-> "train", arg |-> None, status |-> "ok", value |-> None]
    /\ UNCHANGED <<grad_enabled, env_vars, substeps_with_separate_agent_nets, device, record>>

Call_eval ==
    /\ networks' = eval(networks)
    /\ result' = [op |-> "eval", arg |-> None, status |-> "ok", value |-> None]
    /\ UNCHANGED <<grad_enabled, env_vars, substeps_with_separate_agent_nets, device, record>>

Call_to ==
    \E d \in Devices :
        /\ device' = d
        /\ networks' = to(networks, d)
        /\ result' = [op |-> "to", arg |-> d, status |-> "ok", value |-> None]
        /\ UNCHANGED <<grad_enabled, env_vars, substeps_with_separate_agent_nets, record>>

\* A learner updates the tensors handed out by parameters() (an optimizer step).
Call_parameters ==
    \E i \in DOMAIN networks, p \in ParamValues :
        /\ p # networks[i].params
        /\ networks' = [networks EXCEPT ![i].params = p]
        /\ result' = [op |-> "parameters", arg |-> i, status |-> "ok", value |-> None]
        /\ UNCHANGED <<grad_enabled, env_vars, substeps_with_separate_agent_nets, device, record>>

Call_state_dict ==
    /\ result' = [op |-> "state_dict", arg |-> None, status |-> "ok",
                  value |-> state_dict(networks)]
    /\ UNCHANGED <<grad_enabled, env_vars, networks, substeps_with_separate_agent_nets, device, record>>

Call_load_state_dict ==
    \E sd \in StateDictInputs(networks) \cup
              (IF result.op = "state_dict" THEN {result.value} ELSE {}) :
        LET r == load_state_dict(networks, sd)
        IN /\ networks' = r.networks
           /\ result' = [op |-> "load_state_dict", arg |-> sd, status |-> r.status,
                         value |-> None]
           /\ UNCHANGED <<grad_enabled, env_vars, substeps_with_separate_agent_nets, device, record>>

Call_network_for ==
    \E actor_id \in ActorIDs \cup {None} :
        /\ result' = [op |-> "network_for", arg |-> actor_id,
                      status |-> network_for(networks, substeps_with_separate_agent_nets,
                                             actor_id).status,
                      value |-> network_for(networks, substeps_with_separate_agent_nets,
                                            actor_id)]
        /\ UNCHANGED <<grad_enabled, env_vars, networks, substeps_with_separate_agent_nets, device, record>>

\* The policy after construction: any registry of at most MaxNets networks, any
\* separate-agent-nets argument, every network moved to the constructor's device.
Init ==
    /\ device \in Devices
    /\ \E S \in KeySets :
         networks = [i \in 1..Cardinality(S) |->
                        Net(KeySeq(S)[i], 0, device, DefaultHeads)]
    /\ \E arg \in {None} \cup {KeySeq({<<s>> : s \in T}) : T \in SUBSET StepKeys} :
         substeps_with_separate_agent_nets =
             InitSeparate(IF arg = None THEN None ELSE [i \in DOMAIN arg |-> arg[i][1]])
    /\ record = <<>>
    /\ result = NoResult
    /\ grad_enabled = TRUE
    /\ DummyEnv_init

Next ==
    \/ Call_train
    \/ Call_eval
    \/ Call_to
    \/ Call_parameters
    \/ Call_state_dict
    \/ Call_load_state_dict
    \/ Call_network_for

Spec == Init /\ [][Next]_vars

\* The dummy environment next to a policy with at most one network: only the
\* environment's operations are called.
InitEnv == Init /\ Len(networks) <= 1

NextEnv ==
    \/ Env_step
    \/ Env_reset

SpecEnv == InitEnv /\ [][NextEnv]_vars

-----------------------------------------------------------------------------
(* Observations, the forward pass and the distribution mapper. *)

\* How an array is held: a numpy array, or a torch tensor on a device.
Reprs == {"numpy", "cpu"}

ObsData == {0, 1}

\* An observation is a dict of arrays; the model's observations have one entry.
Observation(data, repr) == [observation_0 |-> [data |-> data, repr |-> repr]]

Observations == {Observation(d, r) : d \in ObsData, r \in Reprs}

Temperatures == {1, 2}

\* The sets of output heads a network may emit: exactly the action-space keys, a
\* strict superset of them, extra keys beside only some of them, a strict subset.
HeadSets ==
    {action_space_keys,
     action_space_keys \cup {"latent", "value"},
     {"action_0", "latent"},
     {"action_0"}}

\* convert_to_torch(observation, device, cast=None, in_place=True): every entry of the
\* caller's dict is replaced by a tensor on the device; the data are kept.
convert_to_torch(observation, dev) ==
    [k \in DOMAIN observation |-> [observation[k] EXCEPT !.repr = dev]]

\* The forward pass of a network: one logits tensor per head, determined by the
\* network's parameters and the observation's data.
forward(net, obs_t) ==
    [h \in net.heads |-> <<"logits", h, net.params, obs_t.observation_0.data>>]

\* distribution_mapper.logits_dict_to_distribution(logits_dict, temperature)
logits_dict_to_distribution(logits_dict, temperature) ==
    [logits |-> logits_dict, temperature |-> temperature]

\* prob_dist.log_prob(action): one log-probability per action head.
log_prob(prob_dist, action) ==
    [h \in DOMAIN prob_dist.logits |->
        <<"log_prob", prob_dist.logits[h], prob_dist.temperature, action>>]

-----------------------------------------------------------------------------
(* compute_logits_dict *)

\* A faulty compute_logits_dict: a requested embedding may be empty.
compute_logits_dict_unchecked(nets, separate, dev, observation, actor_id, return_embedding) ==
    LET obs_t == convert_to_torch(observation, dev)
        found == network_for(nets, separate, actor_id)
        network_out == forward(nets[found.index], obs_t)
        embedding_out == Restrict(network_out, (DOMAIN network_out) \ action_space_keys)
    IN IF found.status # "ok"
       THEN [status |-> found.status, observation |-> obs_t, value |-> None]
       ELSE [status |-> "ok", observation |-> obs_t,
             value |-> <<Restrict(network_out, action_space_keys),
                         IF return_embedding THEN <<embedding_out>> ELSE None>>]

\* The outcome of compute_logits_dict: what it raises or returns, and the caller's
\* observation after the call.
compute_logits_dict(nets, separate, dev, observation, actor_id, return_embedding) ==
    LET obs_t == convert_to_torch(observation, dev)
        found == network_for(nets, separate, actor_id)
        network_out == forward(nets[found.index], obs_t)
        embedding_out == Restrict(network_out, (DOMAIN network_out) \ action_space_keys)
        filtered ==
            IF \E key \in DOMAIN network_out : key \notin action_space_keys
            THEN Restrict(network_out, action_space_keys)
            ELSE network_out
    IN IF found.status # "ok"
       THEN [status |-> found.status, observation |-> obs_t, value |-> None]
       ELSE IF return_embedding /\ ~(Cardinality(DOMAIN embedding_out) > 0)
       THEN [status |-> "AssertionError", observation |-> obs_t, value |-> None]
       ELSE [status |-> "ok", observation |-> obs_t,
             value |-> <<filtered, IF return_embedding THEN <<embedding_out>> ELSE None>>]

-----------------------------------------------------------------------------
(* compute_substep_policy_output *)

PolicySubStepOutput(action_logits, prob_dist, embedding_logits, actor_id) ==
    [action_logits |-> action_logits, prob_dist |-> prob_dist,
     embedding_logits |-> embedding_logits, actor_id |-> actor_id]

\* A faulty partition: the action logits keep the embedding keys.
disentangle_unfiltered(network_out) ==
    IF \E key \in DOMAIN network_out : key \notin action_space_keys
    THEN [action_logits |-> network_out,
          embedding_logits |->
              <<Restrict(network_out, (DOMAIN network_out) \ action_space_keys)>>]
    ELSE [action_logits |-> network_out, embedding_logits |-> None]

\* The partition of a network's output into action logits and embedding logits.
disentangle(network_out) ==
    IF \E key \in DOMAIN network_out : key \notin action_space_keys
    THEN [action_logits |-> Restrict(network_out, action_space_keys),
          embedding_logits |->
              <<Restrict(network_out, (DOMAIN network_out) \ action_space_keys)>>]
    ELSE [action_logits |-> network_out, embedding_logits |-> None]

\* A faulty compute_substep_policy_output: it insists on an embedding output.
compute_substep_policy_output_needs_embedding(nets, separate, dev, observation, actor_id, temperature) ==
    LET obs_t == convert_to_torch(observation, dev)
        found == network_for(nets, separate, actor_id)
        network_out == forward(nets[found.index], obs_t)
        parts == disentangle(network_out)
        prob_dist == logits_dict_to_distribution(parts.action_logits, temperature)
    IN IF found.status # "ok"
       THEN [status |-> found.status, observation |-> obs_t, value |-> None]
       ELSE IF parts.embedding_logits = None
       THEN [status |-> "AssertionError", observation |-> obs_t, value |-> None]
       ELSE [status |-> "ok", observation |-> obs_t,
             value |-> PolicySubStepOutput(parts.action_logits, prob_dist,
                                           parts.embedding_logits, actor_id)]

compute_substep_policy_output(nets, separate, dev, observation, actor_id, temperature) ==
    LET obs_t == convert_to_torch(observation, dev)
        found == network_for(nets, separate, actor_id)
        network_out == forward(nets[found.index], obs_t)
        parts == disentangle(network_out)
        prob_dist == logits_dict_to_distribution(parts.action_logits, temperature)
    IN IF found.status # "ok"
       THEN [status |-> found.status, observation |-> obs_t, value |-> None]
       ELSE [status |-> "ok", observation |-> obs_t,
             value |-> PolicySubStepOutput(parts.action_logits, prob_dist,
                                           parts.embedding_logits, actor_id)]

-----------------------------------------------------------------------------
(* Actions of the single sub-step evaluation. *)

Call_compute_logits_dict ==
    \E observation \in Observations, actor_id \in ActorIDs \cup {None},
       return_embedding \in BOOLEAN :
        LET r == compute_logits_dict(networks, substeps_with_separate_agent_nets, device,
                                     observation, actor_id, return_embedding)
        IN /\ result' = [op |-> "compute_logits_dict",
                         arg |-> [observation |-> observation, actor_id |-> actor_id,
                                  return_embedding |-> return_embedding],
                         status |-> r.status, value |-> r.value,
                         observation |-> r.observation]
           /\ UNCHANGED <<grad_enabled, env_vars, networks, substeps_with_separate_agent_nets, device, record>>

Call_compute_substep_policy_output ==
    \E observation \in Observations, actor_id \in ActorIDs \cup {None},
       temperature \in Temperatures :
        LET r == compute_substep_policy_output(networks, substeps_with_separate_agent_nets,
                                               device, observation, actor_id, temperature)
        IN /\ result' = [op |-> "compute_substep_policy_output",
                         arg |-> [observation |-> observation, actor_id |-> actor_id,
                                  temperature |-> temperature],
                         status |-> r.status, value |-> r.value,
                         observation |-> r.observation]
           /\ UNCHANGED <<grad_enabled, env_vars, networks, substeps_with_separate_agent_nets, device, record>>

\* The key a network for actor_id must be registered under.
UsableKeys(separate) == {network_key(actor_id, separate) : actor_id \in ActorIDs}

\* A policy on the cpu whose registry holds only keys that a lookup can use, and
\* whose networks share one of the head sets and differ in their parameters.
InitSubstep ==
    /\ device = "cpu"
    /\ substeps_with_separate_agent_nets \in SUBSET StepKeys
    /\ \E S \in KeySets, heads \in HeadSets :
         /\ S \subseteq UsableKeys(substeps_with_separate_agent_nets)
         /\ networks = [i \in 1..Cardinality(S) |->
                           Net(KeySeq(S)[i], i % 2, device, heads)]
    /\ record = <<>>
    /\ result = NoResult
    /\ grad_enabled = TRUE
    /\ DummyEnv_init

NextSubstep ==
    \/ Call_compute_logits_dict
    \/ Call_compute_substep_policy_output

SpecSubstep == InitSubstep /\ [][NextSubstep]_vars

-----------------------------------------------------------------------------
(* compute_action_with_logits: the rollout path, run inside torch.no_grad(). *)

\* The default temperature of TorchPolicy.logits_dict_to_distribution.
DefaultTemperature == 1

\* Where a collaborator raises during the call: nowhere, in the network's forward
\* pass, or in the distribution's sampling.
Faults == {"none", "forward", "sample"}

\* The random draws of a stochastic sample.
Draws == {0, 1}

\* torch.no_grad().__enter__: gradient computation is switched off.
no_grad_enter(prev) == FALSE

\* A faulty scope exit: the mode is restored only when the body returns normally.
no_grad_exit_unless_raised(prev, raised) == IF raised THEN FALSE ELSE prev

\* torch.no_grad().__exit__: the mode in force before the scope is restored, whether
\* the body returned or raised.
no_grad_exit(prev, raised) == prev

\* prob_dist.deterministic_sample(): the mode of the distribution, a tensor.
deterministic_sample(prob_dist) == [value |-> <<"mode", prob_dist>>, repr |-> "cpu"]

\* prob_dist.sample(): an action drawn from the distribution, a tensor.
sample(prob_dist, draw) == [value |-> <<"sample", prob_dist, draw>>, repr |-> "cpu"]

\* convert_to_numpy(action, cast=None, in_place=False): a copy held as a numpy array.
convert_to_numpy(action) == [action EXCEPT !.repr = "numpy"]

\* One operation run by the call, with the gradient mode it ran under.
ScopeStep(name, grad) == [step |-> name, grad |-> grad]

\* The outcome of compute_action_with_logits: what it raises or returns, the
\* operations it ran with the gradient mode each ran under, and the gradient mode it
\* leaves behind.
compute_action_with_logits(nets, separate, dev, grad, observation, actor_id, deterministic, fault, draw) ==
    LET inside == no_grad_enter(grad)
        found == network_for(nets, separate, actor_id)
        logits == compute_logits_dict(nets, separate, dev, observation, actor_id, FALSE)
        logits_dict == logits.value[1]
        prob_dist == logits_dict_to_distribution(logits_dict, DefaultTemperature)
        sampled_action == IF deterministic THEN deterministic_sample(prob_dist)
                                           ELSE sample(prob_dist, draw)
        status == IF logits.status # "ok" THEN logits.status
                  ELSE IF fault = "none" THEN "ok" ELSE "RuntimeError"
        steps == <<ScopeStep("network_for", inside)>>
                 \o (IF found.status = "ok"
                     THEN <<ScopeStep("forward", inside)>> ELSE <<>>)
                 \o (IF logits.status = "ok" /\ fault # "forward"
                     THEN <<ScopeStep("logits_dict_to_distribution", inside),
                            ScopeStep("sample", inside)>>
                     ELSE <<>>)
    IN [status |-> status,
        observation |-> logits.observation,
        value |-> IF status = "ok"
                  THEN <<convert_to_numpy(sampled_action), logits_dict>>
                  ELSE None,
        steps |-> steps,
        grad_enabled |-> no_grad_exit(grad, status # "ok")]

Call_compute_action_with_logits ==
    \E observation \in Observations, actor_id \in ActorIDs \cup {None},
       deterministic \in BOOLEAN, fault \in Faults, draw \in Draws :
        LET r == compute_action_with_logits(networks, substeps_with_separate_agent_nets,
                                            device, grad_enabled, observation, actor_id,
                                            deterministic, fault, draw)
        IN /\ grad_enabled' = r.grad_enabled
           /\ result' = [op |-> "compute_action_with_logits",
                         arg |-> [observation |-> observation, actor_id |-> actor_id,
                                  deterministic |-> deterministic, fault |-> fault],
                         status |-> r.status, value |-> r.value,
                         observation |-> r.observation, steps |-> r.steps]
           /\ UNCHANGED <<env_vars, networks, substeps_with_separate_agent_nets, device,
                          record>>

\* The policies of SpecSubstep whose networks emit every action head and an embedding.
InitRollout ==
    /\ InitSubstep
    /\ \A i \in DOMAIN networks :
         action_space_keys \subseteq networks[i].heads /\ "latent" \in networks[i].heads

NextRollout ==
    \/ Call_compute_action_with_logits

SpecRollout == InitRollout /\ [][NextRollout]_vars

-----------------------------------------------------------------------------
(* PolicyOutput, compute_policy_output and compute_action_log_probs. *)

\* A faulty append: the new sub-step output is put in front.
PolicyOutput_prepend(step_policy_outputs, value) == <<value>> \o step_policy_outputs

\* PolicyOutput.append
PolicyOutput_append(step_policy_outputs, value) == Append(step_policy_outputs, value)

\* PolicyOutput.actor_ids
actor_ids(policy_output) == [i \in DOMAIN policy_output |-> policy_output[i].actor_id]

\* PolicyOutput.prob_dist
prob_dist_list(policy_output) == [i \in DOMAIN policy_output |-> policy_output[i].prob_dist]

\* A sub-step entry of a StructuredSpacesRecord.
SubstepRecord(observation, actor_id) == [observation |-> observation, actor_id |-> actor_id]

\* The loop of compute_policy_output from sub-step i on: rec is the caller's record as
\* the iterations so far have left it, outputs the PolicyOutput built so far.
RECURSIVE policy_output_loop(_, _, _, _, _, _, _)
policy_output_loop(nets, separate, dev, rec, temperature, i, outputs) ==
    IF i > Len(rec)
    THEN [status |-> "ok", record |-> rec, value |-> outputs]
    ELSE LET r == compute_substep_policy_output(nets, separate, dev, rec[i].observation,
                                                rec[i].actor_id, temperature)
             converted == [rec EXCEPT ![i].observation = r.observation]
         IN IF r.status # "ok"
            THEN [status |-> r.status, record |-> converted, value |-> None]
            ELSE policy_output_loop(nets, separate, dev, converted, temperature, i + 1,
                                    PolicyOutput_append(outputs, r.value))

compute_policy_output(nets, separate, dev, rec, temperature) ==
    policy_output_loop(nets, separate, dev, rec, temperature, 1, <<>>)

\* zip(a, b): the pairs up to the shorter length.
Zip(a, b) ==
    [i \in 1..(IF Len(a) <= Len(b) THEN Len(a) ELSE Len(b)) |-> <<a[i], b[i]>>]

\* A faulty compute_action_log_probs: the lengths are not compared.
compute_action_log_probs_unchecked(policy_output, actions) ==
    LET pairs == Zip(prob_dist_list(policy_output), actions)
    IN [status |-> "ok",
        value |-> [i \in DOMAIN pairs |-> log_prob(pairs[i][1], pairs[i][2])],
        policy_output |-> policy_output, actions |-> actions]

\* The outcome of compute_action_log_probs, with both arguments as the call leaves them.
compute_action_log_probs(policy_output, actions) ==
    LET pairs == Zip(prob_dist_list(policy_output), actions)
    IN IF Len(prob_dist_list(policy_output)) # Len(actions)
       THEN [status |-> "AssertionError", value |-> None,
             policy_output |-> policy_output, actions |-> actions]
       ELSE [status |-> "ok",
             value |-> [i \in DOMAIN pairs |-> log_prob(pairs[i][1], pairs[i][2])],
             policy_output |-> policy_output, actions |-> actions]

\* The values an action takes.
ActionValues == {0, 1}

\* The sequences over S of length at most n.
SeqsUpTo(S, n) == UNION {[1..k -> S] : k \in 0..n}

\* The records handed to compute_policy_output: at most MaxSubSteps sub-steps, the
\* arrays of all observations held the same way.
Records ==
    UNION {SeqsUpTo({SubstepRecord(Observation(d, r), a) : d \in ObsData, a \in ActorIDs},
                    MaxSubSteps) : r \in Reprs}

-----------------------------------------------------------------------------
(* Actions of the evaluation of a full step. *)

Call_compute_policy_output ==
    \E temperature \in Temperatures :
        LET r == compute_policy_output(networks, substeps_with_separate_agent_nets, device,
                                       record, temperature)
        IN /\ record' = r.record
           /\ result' = [op |-> "compute_policy_output",
                         arg |-> [record |-> record, temperature |-> temperature],
                         status |-> r.status, value |-> r.value]
           /\ UNCHANGED <<grad_enabled, env_vars, networks, substeps_with_separate_agent_nets, device>>

\* The learner evaluates actions under the policy output it has just computed.
Call_compute_action_log_probs ==
    /\ result.op = "compute_policy_output"
    /\ result.status = "ok"
    /\ \E actions \in SeqsUpTo(ActionValues, MaxSubSteps) :
        LET r == compute_action_log_probs(result.value, actions)
        IN /\ result' = [op |-> "compute_action_log_probs",
                         arg |-> [policy_output |-> result.value, actions |-> actions],
                         status |-> r.status, value |-> r.value,
                         policy_output |-> r.policy_output, actions |-> r.actions]
           /\ UNCHANGED <<grad_enabled, env_vars, networks, substeps_with_separate_agent_nets, device, record>>

\* A policy on the cpu whose registry lacks at most one of the keys its lookups use;
\* every other network emits an embedding beside the action logits. The caller holds
\* a record.
InitStep ==
    /\ device = "cpu"
    /\ substeps_with_separate_agent_nets \in SUBSET StepKeys
    /\ \E S \in KeySets :
         /\ S \subseteq UsableKeys(substeps_with_separate_agent_nets)
         /\ Cardinality(UsableKeys(substeps_with_separate_agent_nets) \ S) <= 1
         /\ networks = [i \in 1..Cardinality(S) |->
                           Net(KeySeq(S)[i], i % 2, device,
                               IF i % 2 = 1 THEN DefaultHeads ELSE action_space_keys)]
    /\ record \in Records
    /\ result = NoResult
    /\ grad_enabled = TRUE
    /\ DummyEnv_init

NextStep ==
    \/ Call_compute_policy_output
    \/ Call_compute_action_log_probs

SpecStep == InitStep /\ [][NextStep]_vars

-----------------------------------------------------------------------------
(* Claims about the registry and the lifecycle, checked under Spec. *)

\* The registry entries an actor id resolves to in the current state.
Resolved(actor_id) ==
    network_for(networks, substeps_with_separate_agent_nets, actor_id)

\* C2: for a non-absent actor_id, network_for looks the registry up with the full
\* actor_id when its step_key is in the separate-agent-nets set and with the step_key
\* alone otherwise, and returns the entry registered under that key; with separate
\* nets for sub-step 1 only, ActorID(1,0) and ActorID(1,1) resolve to two distinct
\* entries and ActorID(0,a) to one and the same entry for every agent a.
C2_NetworkForKey ==
    /\ (result.op = "network_for" /\ result.arg # None) =>
          /\ result.value.key =
                (IF result.arg[1] \in substeps_with_separate_agent_nets
                 THEN result.arg ELSE <<result.arg[1]>>)
          /\ (result.status = "ok") = (result.value.key \in Keys(networks))
          /\ result.status = "ok" => networks[result.value.index].key = result.value.key
          /\ result.status # "ok" => result.status = "KeyError" /\ result.value.index = 0
    /\ (/\ substeps_with_separate_agent_nets = {1}
        /\ {<<0>>, <<1, 0>>, <<1, 1>>} \subseteq Keys(networks)) =>
          /\ Resolved(<<1, 0>>).status = "ok" /\ Resolved(<<1, 1>>).status = "ok"
          /\ Resolved(<<1, 0>>).index # Resolved(<<1, 1>>).index
          /\ \A a \in AgentIds :
                /\ Resolved(<<0, a>>).status = "ok"
                /\ Resolved(<<0, a>>).index = Resolved(<<0, 0>>).index

\* C2 witness: in the scenario's policy, network_for(ActorID(1,1)) has returned the
\* network registered under the full actor id.
C2_Witness ==
    /\ substeps_with_separate_agent_nets = {1}
    /\ Keys(networks) = {<<0>>, <<1, 0>>, <<1, 1>>}
    /\ result.op = "network_for" /\ result.arg = <<1, 1>>
    /\ result.status = "ok" /\ networks[result.value.index].key = <<1, 1>>

\* C3: network_for(None) succeeds, returning the sole registered network, exactly
\* when the registry holds one network; with none or with several it raises and
\* returns no network.
C3_NetworkForNone ==
    (result.op = "network_for" /\ result.arg = None) =>
        /\ (result.status = "ok") = (Len(networks) = 1)
        /\ result.status = "ok" => result.value.index = 1
        /\ result.status # "ok" =>
              result.status = "AssertionError" /\ result.value.index = 0

\* C3 witness: network_for(None) has raised on a registry of several networks.
C3_Witness ==
    /\ result.op = "network_for" /\ result.arg = None
    /\ Len(networks) >= 2 /\ result.status = "AssertionError"

\* The registry keys for which a state dict holds a saved entry.
SavedKeys(sd) == IF "policies" \in DOMAIN sd THEN DOMAIN sd.policies ELSE {}

\* C8 as stated: load_state_dict raises for every state dict in which some registered
\* key has no saved entry, and accepts a state dict whose only deviation is extra
\* entries.
C8_Original ==
    result.op = "load_state_dict" =>
        (result.status # "ok") = (Keys(networks) \ SavedKeys(result.arg) # {})

\* C8 as amended: load_state_dict raises for every state dict that has a "policies"
\* entry in which some registered key has no saved entry; a state dict without a
\* "policies" entry is accepted, and so is one with extra entries for unregistered keys.
C8_LoadStateDictRaises ==
    result.op = "load_state_dict" =>
        /\ (result.status # "ok") =
              (/\ "policies" \in DOMAIN result.arg
               /\ Keys(networks) \ SavedKeys(result.arg) # {})
        /\ result.status # "ok" => result.status = "AssertionError"

\* C8 witness: a load has raised on a "policies" dict that lacks a registered key
\* and holds an entry for an unregistered one.
C8_Witness ==
    /\ result.op = "load_state_dict" /\ result.status = "AssertionError"
    /\ "policies" \in DOMAIN result.arg
    /\ Keys(networks) \ SavedKeys(result.arg) # {}
    /\ SavedKeys(result.arg) \ Keys(networks) # {}

\* C9: state_dict() returns a mapping with the single top-level key "policies" whose
\* sub-keys are exactly the registry keys, and load_state_dict(state_dict()) succeeds
\* and leaves every registered network as it was, whatever lifecycle operations
\* preceded the save.
C9_RoundTrip ==
    [][/\ result'.op = "state_dict" =>
             /\ DOMAIN result'.value = {"policies"}
             /\ DOMAIN result'.value.policies = Keys(networks')
       /\ (/\ result.op = "state_dict"
           /\ result'.op = "load_state_dict"
           /\ result'.arg = result.value) =>
             (result'.status = "ok" /\ networks' = networks)]_vars

\* C9 witness: the dict of a registry whose networks differ in their parameters, in
\* eval mode on the second device, has been loaded back.
C9_Witness ==
    /\ result.op = "load_state_dict" /\ result.status = "ok"
    /\ result.arg = state_dict(networks)
    /\ \E i, j \in DOMAIN networks : networks[i].params # networks[j].params
    /\ \A i \in DOMAIN networks : ~networks[i].training /\ networks[i].device = "cuda"

\* C12: a load_state_dict that fails because a registered key has no saved entry
\* leaves no partial result behind: every registered network, the ones iterated before
\* the missing key included, has the state it had before the call.
C12_NoPartialLoad ==
    [][(result'.op = "load_state_dict" /\ result'.status = "AssertionError") =>
           networks' = networks]_vars

-----------------------------------------------------------------------------
(* Claims about the single sub-step evaluation, checked under SpecSubstep. *)

\* The call recorded in result was made for an actor id whose network lookup succeeds.
LookupSucceeds == Resolved(result.arg.actor_id).status = "ok"

\* The output dictionary of the network the recorded call has run.
NetworkOut ==
    forward(networks[Resolved(result.arg.actor_id).index], result.observation)

\* C4: when the key set of the network's output dictionary is a strict superset of
\* the action space's key set, the sub-step evaluation yields action_logits equal to
\* the output dictionary restricted to the action-space keys and a non-empty
\* embedding_logits holding exactly the remaining keys.
C4_StrictSuperset ==
    (/\ result.op = "compute_substep_policy_output"
     /\ LookupSucceeds
     /\ action_space_keys \subseteq DOMAIN NetworkOut
     /\ DOMAIN NetworkOut # action_space_keys) =>
        /\ result.status = "ok"
        /\ DOMAIN result.value.action_logits = action_space_keys
        /\ \A k \in action_space_keys : result.value.action_logits[k] = NetworkOut[k]
        /\ result.value.embedding_logits # None
        /\ DOMAIN result.value.embedding_logits[1] # {}
        /\ DOMAIN result.value.embedding_logits[1] =
              (DOMAIN NetworkOut) \ action_space_keys
        /\ \A k \in DOMAIN result.value.embedding_logits[1] :
              result.value.embedding_logits[1][k] = NetworkOut[k]
        /\ result.value.prob_dist.logits = result.value.action_logits

\* C4 witness: a sub-step evaluation has split the output of a network that emits
\* both action heads and two further heads.
C4_Witness ==
    /\ result.op = "compute_substep_policy_output" /\ result.status = "ok"
    /\ DOMAIN NetworkOut = action_space_keys \cup {"latent", "value"}
    /\ DOMAIN result.value.embedding_logits[1] = {"latent", "value"}

\* C5: when the key set of the network's output dictionary equals the action space's
\* key set, the sub-step evaluation raises no error, action_logits is the whole
\* output dictionary and embedding_logits is empty or absent.
C5_ExactKeys ==
    (/\ result.op = "compute_substep_policy_output"
     /\ LookupSucceeds
     /\ DOMAIN NetworkOut = action_space_keys) =>
        /\ result.status = "ok"
        /\ result.value.action_logits = NetworkOut
        /\ \/ result.value.embedding_logits = None
           \/ result.value.embedding_logits = <<Restrict(NetworkOut, {})>>

\* C5 witness: a sub-step evaluation has returned the output of a network that
\* emits exactly the action heads, with no embedding.
C5_Witness ==
    /\ result.op = "compute_substep_policy_output" /\ result.status = "ok"
    /\ DOMAIN NetworkOut = action_space_keys
    /\ result.value.embedding_logits = None

\* C6: requesting an embedding (return_embedding=True) when every output key of the
\* network is an action-space key raises a configuration error and returns no
\* logits; the same output without the request raises nothing.
C6_EmbeddingRequired ==
    (/\ result.op = "compute_logits_dict"
     /\ LookupSucceeds
     /\ DOMAIN NetworkOut \subseteq action_space_keys) =>
        IF result.arg.return_embedding
        THEN result.status = "AssertionError" /\ result.value = None
        ELSE /\ result.status = "ok"
             /\ result.value[1] = NetworkOut
             /\ result.value[2] = None

\* C6 witness: compute_logits_dict has raised on a requested embedding for a network
\* that emits exactly the action heads.
C6_Witness ==
    /\ result.op = "compute_logits_dict" /\ result.arg.return_embedding
    /\ LookupSucceeds /\ DOMAIN NetworkOut = action_space_keys
    /\ result.status = "AssertionError"

-----------------------------------------------------------------------------
(* Claims about the evaluation of a full step, checked under SpecStep. *)

\* The actor id of every sub-step entry of rec resolves to a registered network.
AllResolve(rec) == \A i \in DOMAIN rec : Resolved(rec[i].actor_id).status = "ok"

\* C1: for a record with k sub-step entries (k >= 0) compute_policy_output returns a
\* PolicyOutput holding exactly k sub-step outputs whose actor_ids()[i] is the
\* actor_id of the record's i-th entry, for every i; it returns whenever every actor
\* id of the record resolves to a registered network, and raises otherwise.
C1_PolicyOutputOrder ==
    result.op = "compute_policy_output" =>
        /\ (result.status = "ok") = AllResolve(result.arg.record)
        /\ result.status = "ok" =>
              /\ Len(result.value) = Len(result.arg.record)
              /\ Len(actor_ids(result.value)) = Len(result.arg.record)
              /\ \A i \in DOMAIN result.arg.record :
                    actor_ids(result.value)[i] = result.arg.record[i].actor_id

\* C1 witness: a record of two sub-steps of different actors has been evaluated.
C1_Witness ==
    /\ result.op = "compute_policy_output" /\ result.status = "ok"
    /\ Len(result.arg.record) = 2
    /\ result.arg.record[1].actor_id # result.arg.record[2].actor_id
    /\ Len(result.value) = 2

\* C7: compute_action_log_probs raises when len(actions) # len(policy_output);
\* otherwise it returns a list of the same length whose i-th element is the
\* log-probability of actions[i] under policy_output[i].prob_dist; it changes
\* neither the policy output nor the actions.
C7_ActionLogProbs ==
    result.op = "compute_action_log_probs" =>
        /\ (result.status # "ok") =
              (Len(result.arg.actions) # Len(result.arg.policy_output))
        /\ result.status # "ok" =>
              result.status = "AssertionError" /\ result.value = None
        /\ result.status = "ok" =>
              /\ Len(result.value) = Len(result.arg.actions)
              /\ \A i \in DOMAIN result.arg.actions :
                    result.value[i] =
                        log_prob(result.arg.policy_output[i].prob_dist,
                                 result.arg.actions[i])
        /\ result.policy_output = result.arg.policy_output
        /\ result.actions = result.arg.actions

\* C7 witness: the log-probabilities of two different actions under the outputs of
\* two different actors have been computed.
C7_Witness ==
    /\ result.op = "compute_action_log_probs" /\ result.status = "ok"
    /\ Len(result.arg.actions) = 2
    /\ result.arg.actions[1] # result.arg.actions[2]
    /\ result.arg.policy_output[1].prob_dist # result.arg.policy_output[2].prob_dist
    /\ result.value[1] # result.value[2]

\* C10: compute_policy_output does not mutate the record it is given: after the call
\* every sub-step entry's observation and actor_id are the values they were before.
C10_RecordUnmutated ==
    result.op = "compute_policy_output" => record = result.arg.record

-----------------------------------------------------------------------------
(* Claims about the dummy structured core environment, checked under SpecEnv. *)

\* C13: in the dummy structured core environment current_agent is always 0 or 1, below
\* the agent count 2 that agent_counts_dict declares for step key 0; every step() makes
\* actor_id() the other agent of step key 0, so that it alternates (0,0),(0,1),(0,0),...;
\* the env-step counter grows by one exactly on the steps taken while current_agent is 1
\* and stays on agent 0's steps; every step reports done=False; and reset() at any
\* point returns current_agent to 0.
C13_DummyEnvTurns ==
    [][/\ current_agent' \in {0, 1}
       /\ DOMAIN DummyEnv_agent_counts_dict = {0}
       /\ current_agent' < DummyEnv_agent_counts_dict[0]
       /\ DummyEnv_agent_counts_dict[0] = 2
       /\ ~DummyEnv_is_actor_done
       /\ env_result'.op = "step" =>
             /\ DummyEnv_actor_id(current_agent') = <<0, 1 - current_agent>>
             /\ env_step_count' = IF current_agent = 1 THEN env_step_count + 1
                                                       ELSE env_step_count
             /\ env_result'.value[3] = FALSE
       /\ env_result'.op = "reset" => DummyEnv_actor_id(current_agent') = <<0, 0>>
       /\ env_result'.op \in {"step", "reset"}]_vars

\* C13 witness: agent 0 has just stepped, after two env steps were counted.
C13_Witness ==
    /\ env_result.op = "step"
    /\ current_agent = 1
    /\ env_step_count >= 2

-----------------------------------------------------------------------------
(* Claims about the rollout path, checked under SpecRollout. *)

\* C11: in compute_action_with_logits the network lookup, the forward pass, the
\* construction of the distribution (with temperature 1.0) and the sampling all run
\* with gradient computation disabled, and gradient computation is enabled again after
\* the call on every exit path: when it returns, and when the lookup, the forward
\* pass or the sampling raises.
C11_NoGradScope ==
    result.op = "compute_action_with_logits" =>
        /\ \A i \in DOMAIN result.steps : result.steps[i].grad = FALSE
        /\ result.steps[1].step = "network_for"
        /\ result.status = "ok" =>
              /\ [i \in DOMAIN result.steps |-> result.steps[i].step] =
                    <<"network_for", "forward", "logits_dict_to_distribution", "sample">>
              /\ result.value[1].value[2].temperature = 1
              /\ result.value[1].value[2].logits = result.value[2]
        /\ grad_enabled = TRUE

\* C11 witness: calls have left by each exit path; the one recorded was left by a
\* raising forward pass, after the lookup had succeeded.
C11_Witness ==
    /\ result.op = "compute_action_with_logits"
    /\ result.status = "RuntimeError"
    /\ result.arg.fault = "forward"
    /\ Len(result.steps) = 2
    /\ grad_enabled = TRUE

====
